---- MODULE Spec2Model ----
(***************************************************************************)
(* Model of app/main.py: a FastAPI service with a lifespan-scoped shared   *)
(* httpx.AsyncClient, a root handler that fetches the current temperature  *)
(* from an upstream API and maps failures to 503 / 500, and a health       *)
(* handler.                                                                *)
(*                                                                         *)
(* Each request is an asyncio task.  The only suspension point of a task   *)
(* is `await http_client.get(...)` (main.py:67), so a GET / request is two *)
(* atomic steps: everything up to the await, and everything after it.      *)
(***************************************************************************)
EXTENDS Integers, Sequences, FiniteSets, TLC

VARIABLES
    settings,      \* main.py:25  the Settings() instance (immutable)
    http_client,   \* main.py:37  the global client handle; 0 models None
    lifespan_pc,   \* main.py:40  position of the lifespan generator
    created,       \* number of httpx.AsyncClient(...) constructions (main.py:43)
    aclosed,       \* number of http_client.aclose() calls (main.py:46)
    pc,            \* per request: "new", "awaiting" (suspended at main.py:67), "done"
    route,         \* per request: "none", "/", "/health"
    calls,         \* per request: number of http_client.get calls issued
    sent,          \* per request: the upstream request it issued
    outcome,       \* per request: what the awaited upstream call produced
    trace,         \* per request: log records, raises and the response, in order
    response       \* per request: the HTTP response returned to the caller

vars == <<settings, http_client, lifespan_pc, created, aclosed,
          pc, route, calls, sent, outcome, trace, response>>

(***************************************************************************)
(* Bounds of the model.                                                    *)
(***************************************************************************)
NumRequests == 2

Requests == 1..NumRequests

(***************************************************************************)
(* Floats.  A float is modelled by a decimal mant / 10^scale.  FloatStr is *)
(* what f"{x}" (main.py:77) gives for a float in the range where Python    *)
(* prints positional notation (1e-4 <= |x| < 1e16, or zero): the shortest  *)
(* decimal digits, with at least one digit after the point.                *)
(***************************************************************************)
Dec(m, s) == [mant |-> m, scale |-> s]

Digits == <<"0", "1", "2", "3", "4", "5", "6", "7", "8", "9">>

RECURSIVE Pow10(_)
Pow10(n) == IF n = 0 THEN 1 ELSE 10 * Pow10(n - 1)

RECURSIVE NatStr(_)
NatStr(n) == IF n < 10 THEN Digits[n + 1]
             ELSE NatStr(n \div 10) \o Digits[(n % 10) + 1]

\* the fraction digits of f (value < 10^width) printed on exactly `width` places
RECURSIVE FracStr(_, _)
FracStr(f, width) ==
    IF width = 0 THEN ""
    ELSE FracStr(f \div 10, width - 1) \o Digits[(f % 10) + 1]

\* drop trailing zeros of a digit string
RECURSIVE StripZeros(_)
StripZeros(s) ==
    IF Len(s) > 0 /\ SubSeq(s, Len(s), Len(s)) = "0"
    THEN StripZeros(SubSeq(s, 1, Len(s) - 1))
    ELSE s

FloatStr(x) ==
    LET a    == IF x.mant < 0 THEN 0 - x.mant ELSE x.mant
        p    == Pow10(x.scale)
        frac == StripZeros(FracStr(a % p, x.scale))
    IN  (IF x.mant < 0 THEN "-" ELSE "")
        \o NatStr(a \div p) \o "."
        \o (IF frac = "" THEN "0" ELSE frac)

(***************************************************************************)
(* Settings (main.py:14-25).  The defaults, and an environment that        *)
(* overrides them.                                                         *)
(***************************************************************************)
DefaultSettings ==
    [APP_NAME |-> "WeatherMonitor",
     LATITUDE |-> Dec(557588, 4),
     LONGITUDE |-> Dec(3762817, 5),
     WEATHER_API_URL |-> "https://api.open-meteo.com/v1/forecast"]

SettingsSet ==
    { DefaultSettings,
      [APP_NAME |-> "weather-staging",
       LATITUDE |-> Dec(-5, 2),
       LONGITUDE |-> Dec(1510, 1),
       WEATHER_API_URL |-> "http://upstream.test/v1/forecast"] }

(***************************************************************************)
(* Python values decoded from JSON (response.json(), main.py:69), tagged   *)
(* with their type.                                                        *)
(***************************************************************************)
JNum(x)  == [type |-> "number", num |-> x]
JStr(s)  == [type |-> "string", str |-> s]
JArr(xs) == [type |-> "array", items |-> xs]
JObj(m)  == [type |-> "object", members |-> m]

\* results of evaluating a Python expression: a value, or a raised exception
Ok(v) == [raised |-> FALSE, val |-> v]

Raise(t, m) == [raised |-> TRUE, exc |-> [type |-> t, text |-> m]]

\* Python `k in s` for two strings: substring test
IsSubstring(k, s) ==
    \E i \in 1..(Len(s) - Len(k) + 1) : SubSeq(s, i, i + Len(k) - 1) = k

\* Python `key in v` for a str key (main.py:71)
PyIn(key, v) ==
    CASE v.type = "object" -> Ok(key \in DOMAIN v.members)
      [] v.type = "array"  -> Ok(\E i \in 1..Len(v.items) :
                                    v.items[i].type = "string" /\ v.items[i].str = key)
      [] v.type = "string" -> Ok(IsSubstring(key, v.str))
      [] OTHER -> Raise("TypeError", "argument of type '" \o v.type \o "' is not iterable")

\* Python `v[key]` for a str key (main.py:71, 75, 76)
PyGetItem(v, key) ==
    CASE v.type = "object" ->
            IF key \in DOMAIN v.members THEN Ok(v.members[key])
            ELSE Raise("KeyError", "'" \o key \o "'")
      [] v.type = "array"  ->
            Raise("TypeError", "list indices must be integers or slices, not str")
      [] v.type = "string" ->
            Raise("TypeError", "string indices must be integers, not 'str'")
      [] OTHER -> Raise("TypeError", "'" \o v.type \o "' object is not subscriptable")

(***************************************************************************)
(* What the awaited http_client.get (main.py:67) can produce: an httpx     *)
(* exception, or a response with a status code and a body.                 *)
(***************************************************************************)
ConnectError == [type |-> "ConnectError", text |-> "All connection attempts failed"]

ReadTimeout == [type |-> "ReadTimeout", text |-> "timed out after 10.0 s"]

\* the exception classes deriving from httpx.HTTPError (main.py:79)
HTTPErrorTypes ==
    {"ConnectError", "ConnectTimeout", "ReadTimeout", "WriteTimeout", "PoolTimeout",
     "NetworkError", "ReadError", "WriteError", "ProtocolError", "ProxyError",
     "DecodingError", "TooManyRedirects", "UnsupportedProtocol", "HTTPStatusError"}

Temp1 == JNum(Dec(213, 1))

Temp2 == JNum(Dec(-50, 1))

HtmlBody == [parses |-> FALSE, json |-> JArr(<<>>)]

JsonBody(v) == [parses |-> TRUE, json |-> v]

FullBody(t, u) ==
    JsonBody(JObj([current |-> JObj([time |-> JStr("2024-05-01T12:00"),
                                      temperature_2m |-> t]),
                   current_units |-> JObj([time |-> JStr("iso8601"),
                                            temperature_2m |-> JStr(u)])]))

BodySet ==
    { HtmlBody,
      JsonBody(JNum(Dec(5, 0))),
      JsonBody(JObj([error |-> JStr("true"), reason |-> JStr("bad request")])),
      JsonBody(JObj([current |-> JObj([time |-> JStr("2024-05-01T12:00")])])),
      JsonBody(JObj([current |-> JStr("temperature_2m")])),
      JsonBody(JObj([current |-> JObj([temperature_2m |-> Temp1])])),
      JsonBody(JObj([current |-> JObj([temperature_2m |-> Temp1]),
                     current_units |-> JObj([time |-> JStr("iso8601")])])),
      FullBody(Temp1, "degC"),
      FullBody(Temp2, "degF") }

StatusSet == {200, 399, 400, 503}

Outcomes ==
    {[kind |-> "exception", exc |-> e] : e \in {ConnectError, ReadTimeout}}
    \cup {[kind |-> "response", status_code |-> s, body |-> b] :
              s \in StatusSet, b \in BodySet}

NoOutcome == [kind |-> "none"]

(***************************************************************************)
(* fetch_weather (main.py:54-84).                                          *)
(***************************************************************************)
\* variant: only 4xx and 5xx raise, a 3xx response passes
raise_for_status_errors_only(resp) ==
    IF resp.status_code < 400
    THEN Ok(resp)
    ELSE Raise("HTTPStatusError",
               (IF resp.status_code < 500 THEN "Client error" ELSE "Server error")
               \o " '" \o NatStr(resp.status_code) \o "' for url")

\* response.raise_for_status() (main.py:68): httpx raises HTTPStatusError for
\* every response that is not a success (2xx); redirects are not followed by
\* AsyncClient(timeout=10.0) (main.py:43), so a 3xx reaches this line.
raise_for_status(resp) ==
    IF 200 <= resp.status_code /\ resp.status_code <= 299
    THEN Ok(resp)
    ELSE Raise("HTTPStatusError",
               (CASE resp.status_code \div 100 = 1 -> "Informational response"
                  [] resp.status_code \div 100 = 3 -> "Redirect response"
                  [] resp.status_code \div 100 = 4 -> "Client error"
                  [] resp.status_code \div 100 = 5 -> "Server error"
                  [] OTHER -> "Invalid status code")
               \o " '" \o NatStr(resp.status_code) \o "' for url")

\* response.json() (main.py:69)
response_json(resp) ==
    IF resp.body.parses THEN Ok(resp.body.json)
    ELSE Raise("JSONDecodeError", "Expecting value: line 1 column 1 (char 0)")

\* variant: the two coordinates in the other order
city_coords_swapped(lat, lon) == FloatStr(lon) \o ", " \o FloatStr(lat)

\* f"{lat}, {lon}" (main.py:77)
city_coords(lat, lon) == FloatStr(lat) \o ", " \o FloatStr(lon)

\* the shape test of main.py:71-72, with Python's short-circuit `or`
check_structure(data) ==
    LET hasCurrent == PyIn("current", data)
    IN  IF hasCurrent.raised THEN hasCurrent
        ELSE IF ~hasCurrent.val THEN Raise("ValueError", "Invalid API response structure")
        ELSE LET cur == PyGetItem(data, "current")
             IN  IF cur.raised THEN cur
                 ELSE LET hasTemp == PyIn("temperature_2m", cur.val)
                      IN  IF hasTemp.raised THEN hasTemp
                          ELSE IF ~hasTemp.val
                               THEN Raise("ValueError", "Invalid API response structure")
                               ELSE Ok(data)

\* the dict built at main.py:74-78
build_result(data, lat, lon) ==
    LET cur == PyGetItem(data, "current")
    IN  IF cur.raised THEN cur
        ELSE LET temp == PyGetItem(cur.val, "temperature_2m")
             IN  IF temp.raised THEN temp
                 ELSE LET units == PyGetItem(data, "current_units")
                      IN  IF units.raised THEN units
                          ELSE LET unit == PyGetItem(units.val, "temperature_2m")
                               IN  IF unit.raised THEN unit
                                   ELSE Ok([temperature |-> temp.val,
                                            unit |-> unit.val,
                                            city_coords |-> city_coords(lat, lon)])

\* the try block, main.py:67-78, from the point where the await returns o
try_block(o, lat, lon) ==
    IF o.kind = "exception" THEN [raised |-> TRUE, exc |-> o.exc]
    ELSE LET ok == raise_for_status(o)
         IN  IF ok.raised THEN ok
             ELSE LET data == response_json(o)
                  IN  IF data.raised THEN data
                      ELSE LET checked == check_structure(data.val)
                           IN  IF checked.raised THEN checked
                               ELSE build_result(data.val, lat, lon)

\* an event of a request's trace
LogError(text) == [ev |-> "log", level |-> "ERROR", text |-> text]

RaiseHTTPException(code, detail) ==
    [ev |-> "raise", status_code |-> code, detail |-> detail]

\* variant: the exception text is handed to the caller as the detail
except_http_error_leaky(e) ==
    << LogError("HTTP error occurred while fetching weather: " \o e.text),
       RaiseHTTPException(503, e.text) >>

\* except httpx.HTTPError as e (main.py:79-81)
except_http_error(e) ==
    << LogError("HTTP error occurred while fetching weather: " \o e.text),
       RaiseHTTPException(503, "Weather service unavailable") >>

\* variant: the catch-all clause does not log
except_exception_silent(e) ==
    << RaiseHTTPException(500, "Internal Server Error") >>

\* except Exception as e (main.py:82-84)
except_exception(e) ==
    << LogError("Unexpected error: " \o e.text),
       RaiseHTTPException(500, "Internal Server Error") >>

\* variant: the first clause catches httpx.HTTPStatusError only
is_http_error_status_only(e) == e.type = "HTTPStatusError"

\* variant: the first clause catches Exception
is_http_error_any(e) == TRUE

\* isinstance(e, httpx.HTTPError): which except clause takes e (main.py:79, 82)
is_http_error(e) == e.type \in HTTPErrorTypes

\* fetch_weather after the await: the events it emits, and what it returns
\* (returned = TRUE, value) or raises (the last event is the HTTPException)
fetch_weather(o, lat, lon) ==
    LET r == try_block(o, lat, lon)
    IN  IF ~r.raised THEN [returned |-> TRUE, events |-> <<>>, value |-> r.val]
        ELSE [returned |-> FALSE,
              events |-> IF is_http_error(r.exc) THEN except_http_error(r.exc)
                         ELSE except_exception(r.exc)]

(***************************************************************************)
(* The lifespan context manager (main.py:39-46).                           *)
(***************************************************************************)
ClientTimeout == 10

NoCall == [client |-> 0]

NoResponse == [status_code |-> 0]

Respond(code) == [ev |-> "respond", status_code |-> code]

Init ==
    /\ settings \in SettingsSet
    /\ http_client = 0
    /\ lifespan_pc = "not_started"
    /\ created = 0
    /\ aclosed = 0
    /\ pc = [r \in Requests |-> "new"]
    /\ route = [r \in Requests |-> "none"]
    /\ calls = [r \in Requests |-> 0]
    /\ sent = [r \in Requests |-> NoCall]
    /\ outcome = [r \in Requests |-> NoOutcome]
    /\ trace = [r \in Requests |-> <<>>]
    /\ response = [r \in Requests |-> NoResponse]

\* the server hands requests to the handlers between startup and shutdown
Accepting == lifespan_pc = "yielded"

\* the server drains the requests in flight before it ends the lifespan
Drained == \A r \in Requests : pc[r] # "awaiting"

\* main.py:41-44: runs up to the yield
LifespanStartup ==
    /\ lifespan_pc = "not_started"
    /\ created' = created + 1
    /\ http_client' = created + 1
    /\ lifespan_pc' = "yielded"
    /\ UNCHANGED <<settings, aclosed, pc, route, calls, sent, outcome, trace, response>>

\* main.py:45-46: the generator is resumed normally after the yield
LifespanShutdown ==
    /\ lifespan_pc = "yielded"
    /\ Drained
    /\ aclosed' = aclosed + 1
    /\ lifespan_pc' = "finished"
    /\ UNCHANGED <<settings, http_client, created, pc, route, calls, sent, outcome,
                   trace, response>>

\* main.py:44: an exception or a cancellation raised in the body of the
\* `async with` is thrown into the generator at the yield.  The yield is not
\* inside a try/finally, so the exception leaves the generator and
\* main.py:45-46 never run.
LifespanThrow ==
    /\ lifespan_pc = "yielded"
    /\ Drained
    /\ lifespan_pc' = "aborted"
    /\ UNCHANGED <<settings, http_client, created, aclosed, pc, route, calls, sent,
                   outcome, trace, response>>

(***************************************************************************)
(* read_root (main.py:88-113).                                             *)
(***************************************************************************)
\* main.py:58-64 and the request handed to the client at main.py:67
upstream_request(lat, lon) ==
    [client |-> http_client,
     timeout |-> ClientTimeout,
     url |-> settings.WEATHER_API_URL,
     params |-> [latitude |-> lat, longitude |-> lon, current |-> "temperature_2m",
                 hourly |-> "temperature_2m", forecast_days |-> 1]]

\* variant: a request waits for the upstream call of every other request
ReadRootCallSerial(r) ==
    /\ Accepting
    /\ pc[r] = "new"
    /\ \A q \in Requests : pc[q] # "awaiting"
    /\ route' = [route EXCEPT ![r] = "/"]
    /\ calls' = [calls EXCEPT ![r] = @ + 1]
    /\ sent' = [sent EXCEPT ![r] = upstream_request(settings.LATITUDE, settings.LONGITUDE)]
    /\ pc' = [pc EXCEPT ![r] = "awaiting"]
    /\ UNCHANGED <<settings, http_client, lifespan_pc, created, aclosed, outcome,
                   trace, response>>

\* main.py:93-95, 58-67: up to the await of http_client.get
ReadRootCall(r) ==
    /\ Accepting
    /\ pc[r] = "new"
    /\ route' = [route EXCEPT ![r] = "/"]
    /\ calls' = [calls EXCEPT ![r] = @ + 1]
    /\ sent' = [sent EXCEPT ![r] = upstream_request(settings.LATITUDE, settings.LONGITUDE)]
    /\ pc' = [pc EXCEPT ![r] = "awaiting"]
    /\ UNCHANGED <<settings, http_client, lifespan_pc, created, aclosed, outcome,
                   trace, response>>

\* main.py:96-113: the response read_root builds from what fetch_weather did
read_root_response(f) ==
    IF f.returned
    THEN [status_code |-> 200,
          context |-> [temperature |-> f.value.temperature,
                       unit |-> f.value.unit,
                       location |-> f.value.city_coords]]
    ELSE LET e == f.events[Len(f.events)]
         IN  [status_code |-> e.status_code, context |-> [error |-> e.detail]]

\* main.py:67-84, 96-113: the await returned o; the rest of fetch_weather and of
\* read_root runs without suspending
ReadRootFinish(r, o) ==
    /\ pc[r] = "awaiting"
    /\ LET f    == fetch_weather(o, sent[r].params.latitude, sent[r].params.longitude)
           resp == read_root_response(f)
       IN  /\ outcome' = [outcome EXCEPT ![r] = o]
           /\ trace' = [trace EXCEPT ![r] = @ \o f.events \o <<Respond(resp.status_code)>>]
           /\ response' = [response EXCEPT ![r] = resp]
    /\ pc' = [pc EXCEPT ![r] = "done"]
    /\ UNCHANGED <<settings, http_client, lifespan_pc, created, aclosed, route, calls,
                   sent>>

\* variant: a timed-out get is issued a second time
AwaitReturnsRetry(r, o) ==
    IF o.kind = "exception" /\ o.exc.type = "ReadTimeout" /\ calls[r] < 2
    THEN /\ pc[r] = "awaiting"
         /\ calls' = [calls EXCEPT ![r] = @ + 1]
         /\ UNCHANGED <<settings, http_client, lifespan_pc, created, aclosed, pc, route,
                        sent, outcome, trace, response>>
    ELSE ReadRootFinish(r, o)

\* main.py:67: the single awaited get completes with o, once
AwaitReturns(r, o) == ReadRootFinish(r, o)

(***************************************************************************)
(* health_check (main.py:115-120).                                         *)
(***************************************************************************)
\* variant: the probe reports the upstream failures seen by GET / requests
health_check_probing ==
    IF \E q \in Requests : outcome[q].kind = "exception"
    THEN [status_code |-> 503,
          context |-> [status |-> "degraded", service |-> settings.APP_NAME]]
    ELSE [status_code |-> 200,
          context |-> [status |-> "ok", service |-> settings.APP_NAME]]

health_check ==
    [status_code |-> 200, context |-> [status |-> "ok", service |-> settings.APP_NAME]]

HealthCheck(r) ==
    /\ Accepting
    /\ pc[r] = "new"
    /\ route' = [route EXCEPT ![r] = "/health"]
    /\ response' = [response EXCEPT ![r] = health_check]
    /\ trace' = [trace EXCEPT ![r] = @ \o <<Respond(health_check.status_code)>>]
    /\ pc' = [pc EXCEPT ![r] = "done"]
    /\ UNCHANGED <<settings, http_client, lifespan_pc, created, aclosed, calls, sent,
                   outcome>>

Next ==
    \/ LifespanStartup
    \/ LifespanShutdown
    \/ LifespanThrow
    \/ \E r \in Requests : ReadRootCall(r)
    \/ \E r \in Requests : \E o \in Outcomes : AwaitReturns(r, o)
    \/ \E r \in Requests : HealthCheck(r)

Spec == Init /\ [][Next]_vars

(***************************************************************************)
(* Vocabulary of the properties.  These are stated on the upstream outcome *)
(* and on the response alone, not through the operators of fetch_weather.  *)
(***************************************************************************)
DoneRoot(r) == pc[r] = "done" /\ route[r] = "/"

DoneHealth(r) == pc[r] = "done" /\ route[r] = "/health"

IsException(o) == o.kind = "exception"

IsResponse(o) == o.kind = "response"

Is2xx(o) == IsResponse(o) /\ 200 <= o.status_code /\ o.status_code <= 299

HasKey(v, k) == v.type = "object" /\ k \in DOMAIN v.members

\* the body is JSON carrying current.temperature_2m and current_units.temperature_2m
WellShaped(b) ==
    /\ b.parses
    /\ HasKey(b.json, "current")
    /\ HasKey(b.json.members.current, "temperature_2m")
    /\ HasKey(b.json, "current_units")
    /\ HasKey(b.json.members.current_units, "temperature_2m")

IsErrorView(resp) == DOMAIN resp.context = {"error"}

IsSuccessView(resp) == DOMAIN resp.context = {"temperature", "unit", "location"}

EndsWith(s, suffix) ==
    Len(s) >= Len(suffix) /\ SubSeq(s, Len(s) - Len(suffix) + 1, Len(s)) = suffix

\* the decimal text of the configured coordinates, written out by hand
DecimalText(x) ==
    CASE x = Dec(557588, 4)  -> "55.7588"
      [] x = Dec(3762817, 5) -> "37.62817"
      [] x = Dec(-5, 2)      -> "-0.05"
      [] x = Dec(1510, 1)    -> "151.0"

EventsAt(r, kind) == {i \in 1..Len(trace[r]) : trace[r][i].ev = kind}

(***************************************************************************)
(* C1: a GET / whose upstream call ends in a connection error, a timeout   *)
(* or a response with status >= 400 (whatever its body) is answered 503    *)
(* with an error view; never 500, never 200.                               *)
(***************************************************************************)
C1_TransportFailureIs503 ==
    \A r \in Requests :
        (DoneRoot(r) /\ (IsException(outcome[r])
                         \/ (IsResponse(outcome[r]) /\ outcome[r].status_code >= 400)))
        => /\ response[r].status_code = 503
           /\ IsErrorView(response[r])
           /\ response[r].context.error # ""

C1_Witness ==
    \E r, q \in Requests :
        /\ DoneRoot(r) /\ DoneRoot(q)
        /\ outcome[r] = [kind |-> "exception", exc |-> ReadTimeout]
        /\ response[r].status_code = 503
        /\ IsResponse(outcome[q]) /\ outcome[q].status_code = 400
        /\ outcome[q].body = FullBody(Temp1, "degC")
        /\ response[q].status_code = 503

(***************************************************************************)
(* C2: a GET / whose upstream response has an accepted status but a body   *)
(* of the wrong shape (not JSON, no current, no current.temperature_2m, no *)
(* current_units, no current_units.temperature_2m) is answered 500.        *)
(***************************************************************************)
C2_BadShapeIs500 ==
    \A r \in Requests :
        (DoneRoot(r) /\ Is2xx(outcome[r]) /\ ~WellShaped(outcome[r].body))
        => /\ response[r].status_code = 500
           /\ IsErrorView(response[r])

C2_Witness ==
    \E r, q \in Requests :
        /\ DoneRoot(r) /\ DoneRoot(q)
        /\ Is2xx(outcome[r]) /\ ~outcome[r].body.parses
        /\ response[r].status_code = 500
        /\ Is2xx(outcome[q]) /\ outcome[q].body.parses
        /\ HasKey(outcome[q].body.json, "current")
        /\ HasKey(outcome[q].body.json.members.current, "temperature_2m")
        /\ ~HasKey(outcome[q].body.json, "current_units")
        /\ response[q].status_code = 500

(***************************************************************************)
(* C3: for every configured (lat, lon) and every successful upstream       *)
(* response carrying current.temperature_2m = T and                        *)
(* current_units.temperature_2m = U, GET / answers 200 with a success view *)
(* whose temperature is T, whose unit is U, whose location is              *)
(* "<lat>, <lon>" for the lat and lon sent upstream, and no error field.   *)
(***************************************************************************)
C3_SuccessView ==
    \A r \in Requests :
        (DoneRoot(r) /\ Is2xx(outcome[r]) /\ WellShaped(outcome[r].body))
        => /\ response[r].status_code = 200
           /\ IsSuccessView(response[r])
           /\ response[r].context.temperature
                  = outcome[r].body.json.members.current.members.temperature_2m
           /\ response[r].context.unit
                  = outcome[r].body.json.members.current_units.members.temperature_2m
           /\ sent[r].params.latitude = settings.LATITUDE
           /\ sent[r].params.longitude = settings.LONGITUDE
           /\ response[r].context.location
                  = DecimalText(sent[r].params.latitude) \o ", "
                    \o DecimalText(sent[r].params.longitude)

C3_Witness ==
    \E r \in Requests :
        /\ DoneRoot(r)
        /\ settings = DefaultSettings
        /\ outcome[r] = [kind |-> "response", status_code |-> 200,
                         body |-> FullBody(Temp1, "degC")]
        /\ response[r].status_code = 200
        /\ response[r].context.temperature = Temp1
        /\ response[r].context.unit = JStr("degC")
        /\ response[r].context.location = "55.7588, 37.62817"

(***************************************************************************)
(* C4: while the process accepts connections GET /health can be served,    *)
(* and it answers 200 with {"status": "ok", "service": APP_NAME} whatever  *)
(* the upstream did and whatever GET / requests are in flight; serving it  *)
(* issues no upstream call.                                                *)
(***************************************************************************)
C4_HealthAlwaysOk ==
    \A r \in Requests :
        /\ (Accepting /\ pc[r] = "new") => ENABLED HealthCheck(r)
        /\ DoneHealth(r) =>
              /\ response[r].status_code = 200
              /\ response[r].context = [status |-> "ok", service |-> settings.APP_NAME]
              /\ calls[r] = 0
              /\ sent[r] = NoCall

C4_Witness ==
    \E r, q \in Requests :
        /\ DoneHealth(r)
        /\ response[r].status_code = 200
        /\ DoneRoot(q)
        /\ IsException(outcome[q])
        /\ settings.APP_NAME # DefaultSettings.APP_NAME

(***************************************************************************)
(* C5: a GET / issues exactly one upstream call in its lifetime; whatever  *)
(* the call produced, no second call is issued for the request.            *)
(***************************************************************************)
C5_OneUpstreamCall ==
    \A r \in Requests :
        /\ route[r] = "/" => calls[r] = 1
        /\ route[r] # "/" => calls[r] = 0

C5_Witness ==
    \E r, q \in Requests :
        /\ DoneRoot(r)
        /\ outcome[r] = [kind |-> "exception", exc |-> ReadTimeout]
        /\ calls[r] = 1
        /\ DoneRoot(q)
        /\ Is2xx(outcome[q]) /\ ~WellShaped(outcome[q].body)
        /\ calls[q] = 1

(***************************************************************************)
(* C6: the shared client is created exactly once when serving starts and   *)
(* closed exactly once when the lifespan ends, however it ends (normal     *)
(* shutdown, or an error or cancellation delivered while serving), and     *)
(* every upstream call uses that client.                                   *)
(***************************************************************************)
C6_ClientClosedOnce ==
    /\ lifespan_pc = "yielded" => (created = 1 /\ aclosed = 0)
    /\ lifespan_pc \in {"finished", "aborted"} => (created = 1 /\ aclosed = 1)
    /\ \A r \in Requests : calls[r] > 0 => (sent[r].client = http_client /\ http_client = 1)

(***************************************************************************)
(* C7: the message given to the caller of GET / depends on the error kind  *)
(* only: two failed requests with the same status carry the same message,  *)
(* whatever the upstream exception text, status code or body was.          *)
(***************************************************************************)
C7_GenericMessage ==
    \A r, q \in Requests :
        (DoneRoot(r) /\ DoneRoot(q)
         /\ response[r].status_code # 200
         /\ response[r].status_code = response[q].status_code)
        => response[r].context = response[q].context

C7_Witness ==
    \E r, q \in Requests :
        /\ DoneRoot(r) /\ DoneRoot(q)
        /\ response[r].status_code = 503
        /\ response[q].status_code = 503
        /\ IsException(outcome[r])
        /\ IsResponse(outcome[q])
        /\ trace[r][1].text # trace[q][1].text

C9_BoundaryAt400 ==
    \A r \in Requests :
        DoneRoot(r) =>
            /\ (IsResponse(outcome[r]) /\ outcome[r].status_code < 400
                /\ WellShaped(outcome[r].body))
               => (response[r].status_code = 200 /\ IsSuccessView(response[r]))
            /\ response[r].status_code = 503
               => (IsException(outcome[r])
                   \/ (IsResponse(outcome[r]) /\ outcome[r].status_code >= 400))

(***************************************************************************)
(* C9 amended: the boundary is the 2xx class: a response with a status in  *)
(* 200..299 and a well-shaped body gives a 200 page, and 503 is given      *)
(* exactly for transport failures and for every status outside 200..299,   *)
(* a 3xx included.                                                         *)
(***************************************************************************)
C9_BoundaryAt2xx ==
    \A r \in Requests :
        DoneRoot(r) =>
            /\ (Is2xx(outcome[r]) /\ WellShaped(outcome[r].body))
               => (response[r].status_code = 200 /\ IsSuccessView(response[r]))
            /\ response[r].status_code = 503
               <=> (IsException(outcome[r])
                    \/ (IsResponse(outcome[r]) /\ ~Is2xx(outcome[r])))

C9_Witness ==
    \E r, q \in Requests :
        /\ DoneRoot(r) /\ DoneRoot(q)
        /\ outcome[r] = [kind |-> "response", status_code |-> 399,
                         body |-> FullBody(Temp1, "degC")]
        /\ response[r].status_code = 503
        /\ outcome[q] = [kind |-> "response", status_code |-> 200,
                         body |-> FullBody(Temp1, "degC")]
        /\ response[q].status_code = 200

(***************************************************************************)
(* C10: concurrent requests are independent: while a request is suspended  *)
(* on its upstream call every other request can take its next step (start, *)
(* finish, or be served /health), and what a GET / request returns is a    *)
(* function of its own upstream outcome: two requests with the same        *)
(* outcome return the same response and leave the same trace, whatever     *)
(* the other requests did.                                                 *)
(***************************************************************************)
C10_Independent ==
    /\ \A r, q \in Requests :
          (r # q /\ pc[r] = "awaiting") =>
              /\ pc[q] = "new" => (ENABLED ReadRootCall(q) /\ ENABLED HealthCheck(q))
              /\ pc[q] = "awaiting" => \A o \in Outcomes : ENABLED AwaitReturns(q, o)
    /\ \A r, q \in Requests :
          (DoneRoot(r) /\ DoneRoot(q) /\ outcome[r] = outcome[q])
          => (response[r] = response[q] /\ trace[r] = trace[q])

C10_Witness ==
    \E r, q \in Requests :
        /\ pc[r] = "awaiting"
        /\ DoneRoot(q)
        /\ response[q].status_code = 500

====
